---- MODULE Spec2Model ----
(***************************************************************************)
(* Model of cli/plasmo/src/features/manifest-factory/scaffolder.ts: the    *)
(* Scaffolder class (template cache, token substitution, canonical page    *)
(* generation, page and content-script mounts).                            *)
(*                                                                         *)
(* Texts are TLA+ strings, handled through Len, SubSeq and \o.  Where an   *)
(* intermediate result is used several times it is bound through a         *)
(* one-element set (x \in {e}), which fixes it as a value once computed.   *)
(* Paths are sequences of segments; toPosix renders a path the way it      *)
(* appears inside generated text.                                          *)
(***************************************************************************)
EXTENDS Integers, Sequences, FiniteSets, TLC

(***************************************************************************)
(* String.prototype.replaceAll(searchValue: string, replaceValue: string)  *)
(* as the #generate reducer calls it (scaffolder.ts:195).                  *)
(***************************************************************************)

\* The character of s at 1-based index i.
CharAt(s, i) == SubSeq(s, i, i)

\* s[from..] in 1-based indexing.
Substring(s, from) == SubSeq(s, from, Len(s))

\* The 1-based indices at which key occurs in text.
Occurrences(text, key) ==
    IF key = "" THEN 1..(Len(text) + 1)
    ELSE LET first == CharAt(key, 1)
             n == Len(key)
         IN  {i \in 1..(Len(text) - n + 1) :
                 SubSeq(text, i, i) = first /\ SubSeq(text, i, i + n - 1) = key}

\* The least element of a non-empty set of integers.
Min(S) == CHOOSE i \in S : \A j \in S : i <= j

\* String.prototype.indexOf(key, from) over the occurrences of key: the
\* first index >= from where key occurs, 0 when there is none (JavaScript's
\* -1).
IndexOf(occurrences, from) ==
    LET found == {i \in occurrences : i >= from}
    IN  IF found = {} THEN 0 ELSE Min(found)

\* GetSubstitution for a string pattern (no capture groups): the replacement
\* value is a template in which $$ is "$", $& is the matched text and $' is
\* the text after the match; any other "$" is literal ($1..$99 and $< too,
\* a string pattern having no captures).  The fourth pattern, "$" followed
\* by a grave accent (the text before the match), is left out: no text of
\* the model contains a grave accent.  dollars holds the indices of "$" in
\* the replacement and i is the index reached in it; the text up to the
\* next "$" is copied as it is.
RECURSIVE GetSubstitution(_, _, _, _, _, _)
GetSubstitution(matched, str, position, replacement, dollars, i) ==
    CHOOSE result \in
        {IF d = 0 \/ d = Len(replacement) THEN Substring(replacement, i)
         ELSE LET c == CharAt(replacement, d + 1)
                  ref == CASE c = "$" -> "$"
                           [] c = "&" -> matched
                           [] c = "'" -> Substring(str, position + Len(matched))
                           [] OTHER -> "$"
                  next == IF c \in {"$", "&", "'"} THEN d + 2 ELSE d + 1
              IN  SubSeq(replacement, i, d - 1) \o ref
                     \o GetSubstitution(matched, str, position, replacement, dollars, next)
         : d \in {IndexOf(dollars, i)}} : TRUE

\* The replaceAll loop: endOfLast is the index after the previous match,
\* from the index where the search for the next match starts.  After a match
\* the search advances by max(1, length of the key).
RECURSIVE ReplaceFrom(_, _, _, _, _, _, _)
ReplaceFrom(text, key, value, occurrences, dollars, endOfLast, from) ==
    LET advanceBy == IF Len(key) > 1 THEN Len(key) ELSE 1
    IN  CHOOSE result \in
            {IF p = 0 THEN Substring(text, endOfLast)
             ELSE SubSeq(text, endOfLast, p - 1)
                     \o GetSubstitution(key, text, p, value, dollars, 1)
                     \o ReplaceFrom(text, key, value, occurrences, dollars,
                                    p + Len(key), p + advanceBy)
             : p \in {IndexOf(occurrences, from)}} : TRUE

\* String.prototype.replace in place of replaceAll: the first match only.
ReplaceFirst(text, key, value) ==
    CHOOSE result \in
        {IF Occurrences(str, key) = {} THEN str
         ELSE SubSeq(str, 1, Min(Occurrences(str, key)) - 1) \o value
                 \o Substring(str, Min(Occurrences(str, key)) + Len(key))
         : str \in {text}} : TRUE

\* The matches of key in str and the "$" of value are located once, before
\* the loop.
ReplaceMatches(str, key, value) ==
    CHOOSE result \in
        {ReplaceFrom(str, key, value, occurrences, dollars, 1, 1) :
            occurrences \in {Occurrences(str, key)},
            dollars \in {Occurrences(value, "$")}} : TRUE

\* text.replaceAll(key, value); the receiver is a value when the loop runs
\* over it.
ReplaceAll(text, key, value) ==
    CHOOSE result \in {ReplaceMatches(str, key, value) : str \in {text}} : TRUE

\* reduceRight in place of reduce: the entries are applied last to first.
RECURSIVE ReduceRight(_, _, _)
ReduceRight(html, replaceMap, i) ==
    IF i > Len(replaceMap) THEN html
    ELSE LET k == Len(replaceMap) + 1 - i
         IN  CHOOSE result \in
                 {ReduceRight(acc, replaceMap, i + 1) :
                     acc \in {ReplaceAll(html, replaceMap[k][1], replaceMap[k][2])}} : TRUE

\* The reducer of #generate (scaffolder.ts:194-197): the entries of
\* replaceMap, a sequence of <<token, value>> pairs in Object.entries order,
\* are applied one after another to the accumulated text.  i is the number
\* of entries applied so far plus one; acc is the accumulator, the value the
\* callback returned for the entry before.
RECURSIVE Reduce(_, _, _)
Reduce(html, replaceMap, i) ==
    IF i > Len(replaceMap) THEN html
    ELSE CHOOSE result \in
             {Reduce(acc, replaceMap, i + 1) :
                 acc \in {ReplaceAll(html, replaceMap[i][1], replaceMap[i][2])}} : TRUE

\* finalScaffold of #generate.
FinalScaffold(templateContent, replaceMap) == Reduce(templateContent, replaceMap, 1)

(***************************************************************************)
(* Paths (node:path, POSIX flavour) over sequences of segments.            *)
(***************************************************************************)

\* Normalisation done by resolve and join: "" and "." segments vanish, ".."
\* removes the segment before it.
RECURSIVE Normalize(_, _)
Normalize(done, rest) ==
    IF rest = <<>> THEN done
    ELSE IF Head(rest) \in {"", "."} THEN Normalize(done, Tail(rest))
    ELSE IF Head(rest) = ".."
         THEN Normalize(IF done = <<>> THEN <<>> ELSE SubSeq(done, 1, Len(done) - 1),
                        Tail(rest))
    ELSE Normalize(Append(done, Head(rest)), Tail(rest))

\* resolve(base, rel) for an absolute base and a relative rel.
resolve(base, rel) == Normalize(<<>>, base \o rel)

\* join(dir, name) for relative operands.
join(dir, name) == Normalize(<<>>, Append(dir, name))

\* Length of the longest common prefix of two paths.
RECURSIVE CommonPrefix(_, _)
CommonPrefix(a, b) ==
    IF a = <<>> \/ b = <<>> \/ Head(a) # Head(b) THEN 0
    ELSE 1 + CommonPrefix(Tail(a), Tail(b))

\* relative(from, to) for two absolute paths: one ".." per segment of from
\* below the common prefix, then the rest of to.
relative(from, to) ==
    LET k == CommonPrefix(from, to)
    IN  [i \in 1..(Len(from) - k) |-> ".."] \o SubSeq(to, k + 1, Len(to))

\* The text of a relative path with forward slashes, toPosix(...) of the
\* source.
RECURSIVE toPosix(_)
toPosix(path) ==
    IF path = <<>> THEN ""
    ELSE IF Len(path) = 1 THEN path[1]
    ELSE path[1] \o "/" \o toPosix(Tail(path))

(***************************************************************************)
(* The project layout the Scaffolder is constructed with (plasmoManifest:  *)
(* BaseFactory), the built-in templates and the user's files.              *)
(***************************************************************************)

\* type ExtensionUIPage, in the order in which init() starts the pages.
Pages == <<"popup", "options", "newtab", "devtools">>

PageSet == {Pages[i] : i \in 1..Len(Pages)}

\* plasmoManifest.mountExt
mountExt == ".tsx"

\* plasmoManifest.name, the project's display name.
name == "demo"

\* commonPath.dotPlasmoDirectory, the generated-output directory.
dotPlasmoDirectory == <<"proj", ".plasmo">>

\* commonPath.staticDirectory, the static-output directory.
staticDirectory == <<"proj", ".plasmo", "static">>

\* plasmoManifest.staticScaffoldPath, the directory of the built-in templates.
staticScaffoldPath == <<"templates", "static", "react">>

\* plasmoManifest.templatePath.staticTemplatePath
staticTemplatePath == <<"templates", "static">>

\* projectPath[uiPageName + "IndexList"]: candidate index modules, most
\* specific first.
IndexList(uiPageName) ==
    << <<"proj", uiPageName \o ".tsx">>, <<"proj", uiPageName, "index.tsx">> >>

\* projectPath[uiPageName + "HtmlList"]: candidate HTML files.
HtmlList(uiPageName) ==
    << <<"proj", uiPageName \o ".html">>, <<"proj", uiPageName, "index.html">> >>

\* isSupportedUiExt of ./ui-library: the recognised UI framework extensions.
isSupportedUiExt(ext) == ext \in {".tsx", ".svelte", ".vue"}

\* The built-in mount-script template index.tsx.
IndexMountText == "import C from \"__plasmo_import_module__\""

\* The built-in HTML template index.html: it carries the title and script
\* placeholders and the root mount element.
IndexHtmlText ==
    "<title>__plasmo_static_index_title__</title><div id=\"root\"></div>"
        \o "<script src=\"__plasmo_static_script__\"></script>"

\* The built-in content-script mount template content-script-ui-mount.tsx.
ContentScriptMountText ==
    "import M from \"__plasmo_mount_content_script__\""

\* Names of the built-in templates.
IndexMountName == "index" \o mountExt

ContentScriptMountName == "content-script-ui-mount" \o mountExt

\* A user-authored HTML file of a canonical page.
UserHtmlText == "<body><p>hi</p></body>"

\* A user-authored index module (its text is never read by the Scaffolder).
UserModuleText == "export default 1"

\* The one asset below the template's common directory.
CommonAsset == "common.ts"

\* Map constructors: the map with one entry, and the map f extended or
\* overwritten at k.
EmptyMap == [k \in {} |-> k]

Put(f, k, v) == (k :> v) @@ f

\* The built-in template directory as installed: each template holds its
\* text, or is an empty file when its name is in empty.
TemplateFiles(empty) ==
    LET text(n, t) == IF n \in empty THEN "" ELSE t
    IN  [f \in { Append(staticScaffoldPath, IndexMountName),
                 Append(staticScaffoldPath, "index.html"),
                 Append(staticScaffoldPath, ContentScriptMountName),
                 staticTemplatePath \o <<"common", CommonAsset>> } |->
            CASE f = Append(staticScaffoldPath, IndexMountName) ->
                    text(IndexMountName, IndexMountText)
              [] f = Append(staticScaffoldPath, "index.html") ->
                    text("index.html", IndexHtmlText)
              [] f = Append(staticScaffoldPath, ContentScriptMountName) ->
                    text(ContentScriptMountName, ContentScriptMountText)
              [] OTHER -> "export {}"]

\* The user's files: each path of present exists, HTML candidates with the
\* user's HTML text and index candidates with a module text.
UserFiles(present) ==
    [f \in present |->
        IF \E p \in PageSet : \E i \in 1..2 : f = HtmlList(p)[i]
        THEN UserHtmlText ELSE UserModuleText]

\* Module descriptors (ParsedPath: dir, name, ext) of discovered modules.
Modules ==
    { [dir |-> <<"tabs">>, name |-> "a", ext |-> ".tsx"],
      [dir |-> <<>>, name |-> "sandbox", ext |-> ".ts"] }

(***************************************************************************)
(* Bounds of the model.                                                    *)
(***************************************************************************)

\* Number of calls the caller makes to one Scaffolder.
MaxCalls == 3

(***************************************************************************)
(* State.                                                                  *)
(***************************************************************************)

VARIABLES
    disk,           \* the files: path -> text
    dirs,           \* the directories that exist
    scaffoldCache,  \* #scaffoldCache: template file name -> text
    calls,          \* the calls made to the Scaffolder, in order
    tasks,          \* the async operations: id -> their closure and position
    gens,           \* the #cachedGenerate / #copyGenerate invocations
    unreadable,     \* the files whose read ends in an I/O error
    unwritable,     \* the files and directories that cannot be written
    pIn,            \* input of the function applied by SpecGenerate / SpecHtml
    pOut            \* its result

vars == <<disk, dirs, scaffoldCache, calls, tasks, gens, unreadable, unwritable,
          pIn, pOut>>

\* undefined, the result of Array.prototype.find when nothing matches; the
\* empty string and false of generateHtml's htmlFile parameter are falsy
\* like it.
NoFile == <<>>

NoModule == [dir |-> <<>>, name |-> "", ext |-> ""]

\* A path and the directories above it.
Ancestors(path) == {SubSeq(path, 1, n) : n \in 1..Len(path)}

Parent(path) == SubSeq(path, 1, Len(path) - 1)

\* existsSync(path)
existsSync(d, path) == path \in DOMAIN d

\* Array.prototype.findLast in place of find: the last existing path wins.
RECURSIVE findLast(_, _, _)
findLast(d, list, i) ==
    IF i > Len(list) THEN NoFile
    ELSE IF findLast(d, list, i + 1) # NoFile THEN findLast(d, list, i + 1)
    ELSE IF existsSync(d, list[i]) THEN list[i]
    ELSE NoFile

\* list.find(existsSync): the first path of list that exists, else undefined.
RECURSIVE find(_, _, _)
find(d, list, i) ==
    IF i > Len(list) THEN NoFile
    ELSE IF existsSync(d, list[i]) THEN list[i]
    ELSE find(d, list, i + 1)

\* An ensureDir that returns without creating anything.
ensureDirNothing(ds, dir) == ds

\* ensureDir(dir): dir and the directories above it exist afterwards.
ensureDir(ds, dir) == ds \cup Ancestors(dir)

\* appendFile in place of writeFile: the text is added to an existing file.
writeFileAppending(d, path, text) ==
    Put(d, path, IF path \in DOMAIN d THEN d[path] \o text ELSE text)

\* writeFile(path, text): the file holds exactly text afterwards.
writeFile(d, path, text) == Put(d, path, text)

\* templateCommonDirectory and staticCommonDirectory of #copyStaticCommon
\* (lines 45-53).
templateCommonDirectory == resolve(staticTemplatePath, <<"common">>)

staticCommonDirectory == resolve(staticDirectory, <<"common">>)

\* copy(from, to) of fs-extra: every file below from exists below to, with
\* the same text, afterwards.
copy(d, from, to) ==
    LET copied == {f \in DOMAIN d : Len(f) > Len(from) /\ SubSeq(f, 1, Len(from)) = from}
        target(f) == to \o SubSeq(f, Len(from) + 1, Len(f))
        new == [f \in {target(x) : x \in copied} |->
                   d[CHOOSE x \in copied : target(x) = f]]
    IN  new @@ d

\* A cache that is never consulted: every generation reads its template.
CacheNeverHit(cache, fileName) == FALSE

\* The test of line 216: the cache serves fileName when its entry is truthy.
CacheHit(cache, fileName) ==
    /\ fileName \in DOMAIN cache
    /\ cache[fileName] # ""

\* A store that adds the text read to the entry already there.
CacheStoreAdding(cache, fileName, text) ==
    Put(cache, fileName,
        IF fileName \in DOMAIN cache THEN cache[fileName] \o text ELSE text)

\* What line 217 stores in the cache after a read of text.
CacheStore(cache, fileName, text) == Put(cache, fileName, text)

\* #cachedGenerate up to its first pending I/O: with a cache hit #generate
\* runs at once and the write is issued, otherwise the template read is.
cachedGenerate(cache, fileName, outputFilePath, replaceMap) ==
    [kind |-> "cached", key |-> fileName,
     file |-> resolve(staticScaffoldPath, <<fileName>>),
     out |-> outputFilePath, replaceMap |-> replaceMap,
     phase |-> IF CacheHit(cache, fileName) THEN "writing" ELSE "reading",
     content |-> IF CacheHit(cache, fileName)
                 THEN FinalScaffold(cache[fileName], replaceMap) ELSE ""]

\* #copyGenerate up to its pending read of filePath.
copyGenerate(filePath, outputFilePath, replaceMap) ==
    [kind |-> "copy", key |-> "", file |-> filePath,
     out |-> outputFilePath, replaceMap |-> replaceMap,
     phase |-> "reading", content |-> ""]

\* The root element and the script tag put after the closing-body marker.
BodyInjectionAfter(scriptMountPath) ==
    "</body><div id=\"root\"></div><script src=\"" \o scriptMountPath
        \o "\" type=\"module\"></script>"

\* The element generateHtml puts in front of the closing-body marker.
BodyInjection(scriptMountPath) ==
    "<div id=\"root\"></div><script src=\"" \o scriptMountPath
        \o "\" type=\"module\"></script></body>"

\* templateReplace of generateHtml, with the closing-body entry spread after
\* it when a user HTML file is given.
HtmlReplaceMap(projectName, scriptMountPath, htmlFile) ==
    LET templateReplace ==
            << <<"__plasmo_static_index_title__", projectName>>,
               <<"__plasmo_static_script__", scriptMountPath>> >>
    IN  IF htmlFile # NoFile
        THEN Append(templateReplace, <<"</body>", BodyInjection(scriptMountPath)>>)
        ELSE templateReplace

generateHtml(cache, outputPath, scriptMountPath, htmlFile) ==
    IF htmlFile # NoFile
    THEN copyGenerate(htmlFile, outputPath,
                      HtmlReplaceMap(name, scriptMountPath, htmlFile))
    ELSE cachedGenerate(cache, "index.html", outputPath,
                        HtmlReplaceMap(name, scriptMountPath, htmlFile))

\* A createPageHtml whose script path misses the static directory.
createPageHtmlBesideScript(cache, uiPageName, htmlFile) ==
    generateHtml(cache,
                 resolve(dotPlasmoDirectory, <<uiPageName \o ".html">>),
                 "./" \o uiPageName \o mountExt,
                 htmlFile)

createPageHtml(cache, uiPageName, htmlFile) ==
    generateHtml(cache,
                 resolve(dotPlasmoDirectory, <<uiPageName \o ".html">>),
                 "./static/" \o uiPageName \o mountExt,
                 htmlFile)

\* Ids: call c has the tasks <<c, "copy">> and <<c, page>> (init) or
\* <<c, "mount">>; task <<c, k>> has the generations <<c, k, "script">> and
\* <<c, k, "html">>.
GensOf(t) == {g \in DOMAIN gens : g[1] = t[1] /\ g[2] = t[2]}

\* The state of the promise of a generation.
GenStatus(g) ==
    CASE gens[g].phase = "done" -> "fulfilled"
      [] gens[g].phase \in {"readFailed", "writeFailed"} -> "rejected"
      [] OTHER -> "pending"

\* Promise.allSettled followed by a test: nothing is reported before every
\* promise has settled.
PromiseAllSettled(statuses) ==
    IF \E i \in 1..Len(statuses) : statuses[i] = "pending" THEN "pending"
    ELSE IF \E i \in 1..Len(statuses) : statuses[i] = "rejected" THEN "rejected"
    ELSE "fulfilled"

\* Promise.all over promises in the given states: rejected as soon as one
\* is, fulfilled when all are.
PromiseAll(statuses) ==
    IF \E i \in 1..Len(statuses) : statuses[i] = "rejected" THEN "rejected"
    ELSE IF \A i \in 1..Len(statuses) : statuses[i] = "fulfilled" THEN "fulfilled"
    ELSE "pending"

\* The generations a resumed task awaits, in the order of its Promise.all.
AwaitedGens(t) ==
    LET script == <<t[1], t[2], "script">>
        html == <<t[1], t[2], "html">>
    IN  (IF script \in DOMAIN gens THEN <<script>> ELSE <<>>)
            \o (IF html \in DOMAIN gens THEN <<html>> ELSE <<>>)

\* An operation that starts its generations and returns without awaiting
\* them.
TaskStatusNotAwaiting(t) ==
    CASE tasks[t].phase = "failed" -> "rejected"
      [] tasks[t].phase \in {"done", "resumed"} -> "fulfilled"
      [] OTHER -> "pending"

\* The state of the promise an async operation returned.
TaskStatus(t) ==
    CASE tasks[t].phase = "failed" -> "rejected"
      [] tasks[t].phase = "done" -> "fulfilled"
      [] tasks[t].phase = "resumed" ->
            PromiseAll([i \in 1..Len(AwaitedGens(t)) |-> GenStatus(AwaitedGens(t)[i])])
      [] OTHER -> "pending"

\* The operands of the Promise.all of init(), in order (lines 33-39).
InitTasks(c) == <<"copy">> \o Pages

\* The state of the promise call c returned.
CallStatus(c) ==
    IF calls[c].op = "init"
    THEN PromiseAll([i \in 1..Len(InitTasks(c)) |-> TaskStatus(<<c, InitTasks(c)[i]>>)])
    ELSE TaskStatus(<<c, "mount">>)

\* Output paths of createPageMount (lines 131-132, 138-141).
staticModulePath(root, module) == resolve(root, module.dir)

htmlPath(module) ==
    resolve(staticModulePath(dotPlasmoDirectory, module), <<module.name \o ".html">>)

scriptPath(module) ==
    resolve(staticModulePath(dotPlasmoDirectory, module), <<module.name \o mountExt>>)

\* The content-script mount placed below the generated-output directory.
staticContentPathInDotPlasmo(module) ==
    resolve(staticModulePath(dotPlasmoDirectory, module), <<module.name \o mountExt>>)

\* Output path of createContentScriptMount (lines 163-173).
staticContentPath(module) ==
    resolve(staticModulePath(staticDirectory, module), <<module.name \o mountExt>>)

\* Output path of the mount script of a canonical page (lines 80-83).
uiPageModulePath(uiPageName) == resolve(staticDirectory, <<uiPageName \o mountExt>>)

\* indexImport of #initUiPageTemplate (lines 76-78).
indexImport(uiPageName, indexFile) ==
    IF indexFile # NoFile
    THEN toPosix(relative(staticDirectory, indexFile))
    ELSE "~" \o uiPageName

\* The synthetic alias of a module (lines 145, 153, 180-182).
moduleAlias(module) == "~" \o toPosix(join(module.dir, module.name))

\* The directory an operation passes to ensureDir (lines 70, 133, 168).
EnsuredDir(t) ==
    CASE tasks[t].kind = "pageMount" -> staticModulePath(dotPlasmoDirectory, tasks[t].module)
      [] tasks[t].kind = "contentScript" -> staticModulePath(staticDirectory, tasks[t].module)
      [] OTHER -> staticDirectory

\* The value an async operation returns when it is fulfilled.
TaskResult(t) ==
    CASE tasks[t].kind = "page" -> tasks[t].indexFile # NoFile
      [] tasks[t].kind = "pageMount" -> htmlPath(tasks[t].module)
      [] tasks[t].kind = "contentScript" -> staticContentPath(tasks[t].module)
      [] OTHER -> "undefined"

\* The whole result of Promise.all, the copy's result included.
uiPagesResultWithCopy(values) == values

\* const [_, ...uiPagesResult] of init() (line 33).
uiPagesResult(values) == Tail(values)

\* The value call c is fulfilled with.
CallResult(c) ==
    IF calls[c].op = "init"
    THEN uiPagesResult([i \in 1..Len(InitTasks(c)) |-> TaskResult(<<c, InitTasks(c)[i]>>)])
    ELSE TaskResult(<<c, "mount">>)

\* The caller awaits each call before the next one and gives up at the first
\* rejection; it starts with init(), as the build does.
CallerMayCall ==
    /\ Len(calls) < MaxCalls
    /\ IF calls = <<>> THEN TRUE ELSE CallStatus(Len(calls)) = "fulfilled"

\* What no action of the Scaffolder changes.
UNCHANGEDEnv == UNCHANGED <<unreadable, unwritable, pIn, pOut>>

(***************************************************************************)
(* Actions: the synchronous stretches of the Scaffolder's methods, each    *)
(* running from a call or an I/O completion to the next pending I/O.       *)
(***************************************************************************)

\* init() (lines 32-39): #copyStaticCommon issues its copy, and each
\* #initUiPageTemplate runs lines 59-70: it resolves its index and HTML
\* files and issues ensureDir.
init ==
    /\ CallerMayCall
    /\ LET c == Len(calls) + 1
           pageTask(p) ==
               [kind |-> "page", phase |-> "ensureDir", module |-> NoModule,
                indexFile |-> find(disk, IndexList(p), 1),
                htmlFile |-> find(disk, HtmlList(p), 1)]
           copyTask ==
               [kind |-> "copy", phase |-> "copy", module |-> NoModule,
                indexFile |-> NoFile, htmlFile |-> NoFile]
       IN  /\ calls' = Append(calls, [op |-> "init", module |-> NoModule])
           /\ tasks' = [t \in {<<c, k>> : k \in {"copy"} \cup PageSet} |->
                           IF t[2] = "copy" THEN copyTask ELSE pageTask(t[2])] @@ tasks
    /\ UNCHANGED <<disk, dirs, scaffoldCache, gens>>
    /\ UNCHANGEDEnv

\* copy(templateCommonDirectory, staticCommonDirectory) completes (line 55).
copyStaticCommonDone(c) ==
    /\ <<c, "copy">> \in DOMAIN tasks
    /\ tasks[<<c, "copy">>].phase = "copy"
    /\ staticCommonDirectory \notin unwritable
    /\ disk' = copy(disk, templateCommonDirectory, staticCommonDirectory)
    /\ dirs' = ensureDir(dirs, staticCommonDirectory)
    /\ tasks' = [tasks EXCEPT ![<<c, "copy">>].phase = "done"]
    /\ UNCHANGED <<scaffoldCache, calls, gens>>
    /\ UNCHANGEDEnv

\* copy fails with an I/O error.
copyStaticCommonFail(c) ==
    /\ <<c, "copy">> \in DOMAIN tasks
    /\ tasks[<<c, "copy">>].phase = "copy"
    /\ staticCommonDirectory \in unwritable
    /\ tasks' = [tasks EXCEPT ![<<c, "copy">>].phase = "failed"]
    /\ UNCHANGED <<disk, dirs, scaffoldCache, calls, gens>>
    /\ UNCHANGEDEnv

\* ensureDir(staticDirectory) of a canonical page completes and
\* #initUiPageTemplate runs lines 72-90: it starts the mount-script
\* generation and the HTML generation.
initUiPageTemplateResume(t) ==
    /\ t \in DOMAIN tasks
    /\ tasks[t].kind = "page"
    /\ tasks[t].phase = "ensureDir"
    /\ EnsuredDir(t) \notin unwritable
    /\ dirs' = ensureDir(dirs, EnsuredDir(t))
    /\ tasks' = [tasks EXCEPT ![t].phase = "resumed"]
    /\ LET uiPageName == t[2]
           script == cachedGenerate(scaffoldCache, IndexMountName,
                         uiPageModulePath(uiPageName),
                         << <<"__plasmo_import_module__",
                              indexImport(uiPageName, tasks[t].indexFile)>> >>)
           html == createPageHtml(scaffoldCache, uiPageName, tasks[t].htmlFile)
       IN  gens' = Put(Put(gens, <<t[1], t[2], "script">>, script),
                       <<t[1], t[2], "html">>, html)
    /\ UNCHANGED <<disk, scaffoldCache, calls>>
    /\ UNCHANGEDEnv

\* createPageMount(module) (lines 127-133): issues ensureDir.
createPageMount(module) ==
    /\ CallerMayCall
    /\ calls # <<>>
    /\ calls' = Append(calls, [op |-> "createPageMount", module |-> module])
    /\ tasks' = Put(tasks, <<Len(calls) + 1, "mount">>,
                    [kind |-> "pageMount", phase |-> "ensureDir", module |-> module,
                     indexFile |-> NoFile, htmlFile |-> NoFile])
    /\ UNCHANGED <<disk, dirs, scaffoldCache, gens>>
    /\ UNCHANGEDEnv

\* createPageMount without its extension test: every module gets a mount
\* script and an HTML file pointing at it.
createPageMountResumeAlwaysMounting(t) ==
    /\ t \in DOMAIN tasks
    /\ tasks[t].kind = "pageMount"
    /\ tasks[t].phase = "ensureDir"
    /\ EnsuredDir(t) \notin unwritable
    /\ dirs' = ensureDir(dirs, EnsuredDir(t))
    /\ tasks' = [tasks EXCEPT ![t].phase = "resumed"]
    /\ LET module == tasks[t].module
           script == cachedGenerate(scaffoldCache, IndexMountName, scriptPath(module),
                         << <<"__plasmo_import_module__", moduleAlias(module)>> >>)
           html == generateHtml(scaffoldCache, htmlPath(module),
                       "./" \o module.name \o mountExt, NoFile)
       IN  gens' = Put(Put(gens, <<t[1], t[2], "script">>, script),
                       <<t[1], t[2], "html">>, html)
    /\ UNCHANGED <<disk, scaffoldCache, calls>>
    /\ UNCHANGEDEnv

\* ensureDir(staticModulePath) of createPageMount completes and lines
\* 135-156 run: a recognised UI extension gets a mount script and an HTML
\* file, any other extension an HTML file only.
createPageMountResume(t) ==
    /\ t \in DOMAIN tasks
    /\ tasks[t].kind = "pageMount"
    /\ tasks[t].phase = "ensureDir"
    /\ EnsuredDir(t) \notin unwritable
    /\ dirs' = ensureDir(dirs, EnsuredDir(t))
    /\ tasks' = [tasks EXCEPT ![t].phase = "resumed"]
    /\ LET module == tasks[t].module
           isUiExt == isSupportedUiExt(module.ext)
           script == cachedGenerate(scaffoldCache, IndexMountName, scriptPath(module),
                         << <<"__plasmo_import_module__", moduleAlias(module)>> >>)
           html == IF isUiExt
                   THEN generateHtml(scaffoldCache, htmlPath(module),
                            "./" \o module.name \o mountExt, NoFile)
                   ELSE generateHtml(scaffoldCache, htmlPath(module),
                            moduleAlias(module) \o module.ext, NoFile)
       IN  gens' = IF isUiExt
                   THEN Put(Put(gens, <<t[1], t[2], "script">>, script),
                            <<t[1], t[2], "html">>, html)
                   ELSE Put(gens, <<t[1], t[2], "html">>, html)
    /\ UNCHANGED <<disk, scaffoldCache, calls>>
    /\ UNCHANGEDEnv

\* createContentScriptMount(module) (lines 161-168): issues ensureDir.
createContentScriptMount(module) ==
    /\ CallerMayCall
    /\ calls # <<>>
    /\ calls' = Append(calls, [op |-> "createContentScriptMount", module |-> module])
    /\ tasks' = Put(tasks, <<Len(calls) + 1, "mount">>,
                    [kind |-> "contentScript", phase |-> "ensureDir", module |-> module,
                     indexFile |-> NoFile, htmlFile |-> NoFile])
    /\ UNCHANGED <<disk, dirs, scaffoldCache, gens>>
    /\ UNCHANGEDEnv

\* ensureDir(staticModulePath) of createContentScriptMount completes and
\* lines 170-184 run: the content-script mount template is generated.
createContentScriptMountResume(t) ==
    /\ t \in DOMAIN tasks
    /\ tasks[t].kind = "contentScript"
    /\ tasks[t].phase = "ensureDir"
    /\ EnsuredDir(t) \notin unwritable
    /\ dirs' = ensureDir(dirs, EnsuredDir(t))
    /\ tasks' = [tasks EXCEPT ![t].phase = "resumed"]
    /\ LET module == tasks[t].module
           script == cachedGenerate(scaffoldCache, ContentScriptMountName,
                         staticContentPath(module),
                         << <<"__plasmo_mount_content_script__", moduleAlias(module)>> >>)
       IN  gens' = Put(gens, <<t[1], t[2], "script">>, script)
    /\ UNCHANGED <<disk, scaffoldCache, calls>>
    /\ UNCHANGEDEnv

\* ensureDir fails with an I/O error: the operation rejects at its await
\* (lines 70, 133, 168).
ensureDirFail(t) ==
    /\ t \in DOMAIN tasks
    /\ tasks[t].phase = "ensureDir"
    /\ EnsuredDir(t) \in unwritable
    /\ tasks' = [tasks EXCEPT ![t].phase = "failed"]
    /\ UNCHANGED <<disk, dirs, scaffoldCache, calls, gens>>
    /\ UNCHANGEDEnv

\* readFile completes.  #cachedGenerate stores the text in the cache (line
\* 217) and hands the cache entry to #generate (lines 223-227);
\* #copyGenerate hands the text to #generate (line 208).  #generate builds
\* finalScaffold and issues the write (lines 194-199).
readFileDone(g) ==
    /\ g \in DOMAIN gens
    /\ gens[g].phase = "reading"
    /\ gens[g].file \notin unreadable
    /\ LET text == disk[gens[g].file]
           cache == IF gens[g].kind = "cached"
                    THEN CacheStore(scaffoldCache, gens[g].key, text)
                    ELSE scaffoldCache
           templateContent == IF gens[g].kind = "cached" THEN cache[gens[g].key] ELSE text
       IN  /\ scaffoldCache' = cache
           /\ gens' = [gens EXCEPT ![g].phase = "writing",
                                   ![g].content = FinalScaffold(templateContent,
                                                                gens[g].replaceMap)]
    /\ UNCHANGED <<disk, dirs, calls, tasks>>
    /\ UNCHANGEDEnv

\* A failed read that leaves an empty entry in the cache.
readFileFailCaching(g) ==
    /\ g \in DOMAIN gens
    /\ gens[g].phase = "reading"
    /\ gens[g].file \in unreadable
    /\ gens' = [gens EXCEPT ![g].phase = "readFailed"]
    /\ scaffoldCache' = IF gens[g].kind = "cached"
                        THEN Put(scaffoldCache, gens[g].key, "")
                        ELSE scaffoldCache
    /\ UNCHANGED <<disk, dirs, calls, tasks>>
    /\ UNCHANGEDEnv

\* readFile fails with an I/O error: the generation rejects at its await
\* (lines 207, 217).
readFileFail(g) ==
    /\ g \in DOMAIN gens
    /\ gens[g].phase = "reading"
    /\ gens[g].file \in unreadable
    /\ gens' = [gens EXCEPT ![g].phase = "readFailed"]
    /\ UNCHANGED <<disk, dirs, scaffoldCache, calls, tasks>>
    /\ UNCHANGEDEnv

\* writeFile(outputFilePath, finalScaffold) completes (line 199); it needs
\* the directory of the file.
writeFileDone(g) ==
    /\ g \in DOMAIN gens
    /\ gens[g].phase = "writing"
    /\ gens[g].out \notin unwritable
    /\ IF Parent(gens[g].out) \in dirs
       THEN /\ disk' = writeFile(disk, gens[g].out, gens[g].content)
            /\ gens' = [gens EXCEPT ![g].phase = "done"]
       ELSE /\ disk' = disk
            /\ gens' = [gens EXCEPT ![g].phase = "writeFailed"]
    /\ UNCHANGED <<dirs, scaffoldCache, calls, tasks>>
    /\ UNCHANGEDEnv

\* writeFile fails with an I/O error.
writeFileFail(g) ==
    /\ g \in DOMAIN gens
    /\ gens[g].phase = "writing"
    /\ gens[g].out \in unwritable
    /\ gens' = [gens EXCEPT ![g].phase = "writeFailed"]
    /\ UNCHANGED <<disk, dirs, scaffoldCache, calls, tasks>>
    /\ UNCHANGEDEnv

\* The environments the Scaffolder is run in: the user files that exist,
\* the built-in templates that are empty files, the files whose read fails
\* and the paths that cannot be written.
Scenarios ==
    { [present |-> {}, empty |-> {}, unreadable |-> {}, unwritable |-> {}],
      [present |-> {IndexList("popup")[1], IndexList("popup")[2],
                    IndexList("options")[2], IndexList("devtools")[1],
                    HtmlList("newtab")[2]},
       empty |-> {ContentScriptMountName}, unreadable |-> {}, unwritable |-> {}],
      [present |-> {IndexList("options")[2], IndexList("devtools")[1],
                    HtmlList("popup")[1], HtmlList("popup")[2]},
       empty |-> {}, unreadable |-> {},
       unwritable |-> {resolve(dotPlasmoDirectory, <<"options.html">>)}],
      [present |-> {IndexList("newtab")[1]}, empty |-> {},
       unreadable |-> {resolve(staticScaffoldPath, <<IndexMountName>>)},
       unwritable |-> {}],
      [present |-> {}, empty |-> {}, unreadable |-> {},
       unwritable |-> {staticDirectory, staticCommonDirectory}] }

\* The operations that may be in flight: the caller awaits each call before
\* it makes the next, so they all belong to the latest call.
TaskIds == {<<Len(calls), k>> : k \in {"copy", "mount"} \cup PageSet}

GenIds == {<<t[1], t[2], s>> : t \in TaskIds, s \in {"script", "html"}}

Init ==
    /\ \E s \in Scenarios :
          /\ disk = [f \in DOMAIN TemplateFiles(s.empty) \cup s.present |->
                        IF f \in s.present THEN UserFiles(s.present)[f]
                        ELSE TemplateFiles(s.empty)[f]]
          /\ unreadable = s.unreadable
          /\ unwritable = s.unwritable
    /\ dirs = UNION {Ancestors(Parent(f)) : f \in DOMAIN disk}
    /\ scaffoldCache = EmptyMap
    /\ calls = <<>>
    /\ tasks = EmptyMap
    /\ gens = EmptyMap
    /\ pIn = <<>>
    /\ pOut = <<>>

Next ==
    \/ init
    \/ copyStaticCommonDone(Len(calls))
    \/ copyStaticCommonFail(Len(calls))
    \/ \E t \in TaskIds : initUiPageTemplateResume(t)
    \/ \E m \in Modules : createPageMount(m)
    \/ \E t \in TaskIds : createPageMountResume(t)
    \/ \E m \in Modules : createContentScriptMount(m)
    \/ \E t \in TaskIds : createContentScriptMountResume(t)
    \/ \E t \in TaskIds : ensureDirFail(t)
    \/ \E g \in GenIds : readFileDone(g)
    \/ \E g \in GenIds : readFileFail(g)
    \/ \E g \in GenIds : writeFileDone(g)
    \/ \E g \in GenIds : writeFileFail(g)

Spec == Init /\ [][Next]_vars

(***************************************************************************)
(* Properties of the Scaffolder under Spec.                                *)
(***************************************************************************)

\* The generations of call c.
GensOfCall(c) == {g \in DOMAIN gens : g[1] = c}

\* The files call c has written so far.
WrittenBy(c) == {gens[g].out : g \in {x \in GensOfCall(c) : gens[x].phase = "done"}}

\* The calls made so far.
Calls == 1..Len(calls)

\* A cached generation that ran to the end of call c, over and done before
\* any later call was made.
CompletedBefore(g1, g2) ==
    /\ g1[1] < g2[1]
    /\ gens[g1].kind = "cached"
    /\ gens[g1].key = gens[g2].key
    /\ gens[g1].phase = "done"

\* C1: once a cached generation for a template name has completed, no later
\* cached generation for that name reads the template file again, whatever
\* the template's text is.
C1_NoReadAfterCompletion ==
    \A g2 \in DOMAIN gens :
        (gens[g2].kind = "cached" /\ gens[g2].phase \in {"reading", "readFailed"})
            => ~ \E g1 \in DOMAIN gens : CompletedBefore(g1, g2)

\* The segments of a path text, split at "/".
RECURSIVE SplitFrom(_, _, _)
SplitFrom(text, slashes, from) ==
    LET p == IndexOf(slashes, from)
    IN  IF p = 0 THEN <<Substring(text, from)>>
        ELSE <<SubSeq(text, from, p - 1)>> \o SplitFrom(text, slashes, p + 1)

Segments(text) == SplitFrom(text, Occurrences(text, "/"), 1)

\* The positions of list whose file exists.
Existing(list) == {i \in 1..Len(list) : list[i] \in DOMAIN disk}

\* The import token a canonical page passes to its mount-script generation.
ImportToken(t) == gens[<<t[1], t[2], "script">>].replaceMap[1][2]

\* The mount script built from the index.tsx template for an import token.
MountScriptFor(token) == "import C from \"" \o token \o "\""

\* C2: the resolved index module of a page is the first candidate, in list
\* order, whose file exists; without one the import token in the mount
\* script is ~{pageKind}, otherwise it is the path of the resolved file
\* relative to the static directory.  Stated of the pages of the latest
\* call: the records of a call do not change once the next call is made.
C2_PageResolution ==
    \A t \in DOMAIN tasks :
        (t[1] = Len(calls) /\ tasks[t].kind = "page"
            /\ <<t[1], t[2], "script">> \in DOMAIN gens) =>
            LET list == IndexList(t[2])
                script == gens[<<t[1], t[2], "script">>]
            IN  /\ tasks[t].indexFile =
                      IF Existing(list) = {} THEN NoFile ELSE list[Min(Existing(list))]
                /\ Existing(list) = {} => ImportToken(t) = "~" \o t[2]
                /\ Existing(list) # {} =>
                      Normalize(<<>>, staticDirectory \o Segments(ImportToken(t)))
                          = list[Min(Existing(list))]
                /\ script.phase = "done" =>
                      /\ script.out = staticDirectory \o <<t[2] \o ".tsx">>
                      /\ script.content = MountScriptFor(ImportToken(t))

\* C2 witness: a page with both candidates, a page with the second only and
\* a page with none have written their mount scripts.
C2_Witness ==
    /\ \A p \in {"popup", "options", "newtab"} :
          /\ <<1, p, "script">> \in DOMAIN gens
          /\ gens[<<1, p, "script">>].phase = "done"
    /\ Existing(IndexList("popup")) = {1, 2}
    /\ Existing(IndexList("options")) = {2}
    /\ Existing(IndexList("newtab")) = {}

\* Does a candidate index module of the page exist?
HasIndexModule(p) == \E i \in 1..2 : IndexList(p)[i] \in DOMAIN disk

\* C7: a fulfilled init() returns four booleans, for popup, options, newtab
\* and devtools in this order, each telling whether an index module of the
\* page exists; the copy's result is not among them.  Stated of the latest
\* call, at the time the caller receives its result.
C7_InitResult ==
    \A c \in Calls :
        (c = Len(calls) /\ calls[c].op = "init" /\ CallStatus(c) = "fulfilled") =>
            /\ Len(CallResult(c)) = 4
            /\ CallResult(c)[1] = HasIndexModule("popup")
            /\ CallResult(c)[2] = HasIndexModule("options")
            /\ CallResult(c)[3] = HasIndexModule("newtab")
            /\ CallResult(c)[4] = HasIndexModule("devtools")

\* C7 witness: init() is fulfilled with pages of both kinds.
C7_Witness ==
    /\ calls # <<>>
    /\ CallStatus(1) = "fulfilled"
    /\ HasIndexModule("devtools")
    /\ ~ HasIndexModule("newtab")

\* The text of join(dir, name).
JoinText(module) ==
    IF module.dir = <<>> THEN module.name
    ELSE toPosix(module.dir) \o "/" \o module.name

\* The number of script tags of an HTML text whose source is src.
ScriptTags(html, src) == Cardinality(Occurrences(html, "<script src=\"" \o src \o "\""))

\* The text of the built-in template fileName on disk.
TemplateText(fileName) == disk[staticScaffoldPath \o <<fileName>>]

\* C5: a fulfilled createPageMount has written the mount script and the
\* HTML file of a module with a recognised UI extension, the HTML's script
\* path being ./{name}{mountExt}, and the HTML file only of any other
\* module, the script path being ~{join(dir, name)}{ext}; it returns the
\* path of the HTML file.  Stated of the latest call, at the time the
\* caller receives its result.
C5_MountDispatch ==
    \A c \in Calls :
        (c = Len(calls) /\ calls[c].op = "createPageMount"
            /\ CallStatus(c) = "fulfilled") =>
            LET m == calls[c].module
                outDir == dotPlasmoDirectory \o m.dir
                html == Append(outDir, m.name \o ".html")
                script == Append(outDir, m.name \o ".tsx")
                ui == m.ext \in {".tsx", ".svelte", ".vue"}
                src == IF ui THEN "./" \o m.name \o ".tsx"
                       ELSE "~" \o JoinText(m) \o m.ext
            IN  /\ WrittenBy(c) = IF ui THEN {script, html} ELSE {html}
                /\ Cardinality(WrittenBy(c)) = IF ui THEN 2 ELSE 1
                /\ ScriptTags(disk[html], src)
                      = ScriptTags(TemplateText("index.html"), "__plasmo_static_script__")
                /\ Occurrences(disk[html], "__plasmo_static_script__") = {}
                /\ CallResult(c) = html

\* C5 witness: both kinds of module have been mounted from the intact HTML
\* template.
C5_Witness ==
    /\ Len(calls) = 3
    /\ calls[2].op = "createPageMount" /\ calls[3].op = "createPageMount"
    /\ calls[2].module.ext = ".tsx" /\ calls[3].module.ext = ".ts"
    /\ CallStatus(3) = "fulfilled"
    /\ ScriptTags(TemplateText("index.html"), "__plasmo_static_script__") = 1

\* A template in which the token stands at most once, with the alias in the
\* token's place.
Instantiated(template, token, alias) ==
    LET at == Occurrences(template, token)
    IN  IF at = {} THEN template
        ELSE SubSeq(template, 1, Min(at) - 1) \o alias
                \o Substring(template, Min(at) + Len(token))

\* C9: a fulfilled createContentScriptMount has written one file, the
\* content-script mount template with the module's alias, at
\* {staticDir}/{dir}/{name}{mountExt}, and returns its path; it writes no
\* HTML and nothing directly in the generated-output directory.  Stated of
\* the latest call, at the time the caller receives its result.
C9_ContentScriptMount ==
    \A c \in Calls :
        (c = Len(calls) /\ calls[c].op = "createContentScriptMount"
            /\ CallStatus(c) = "fulfilled") =>
            LET m == calls[c].module
                path == staticDirectory \o m.dir \o <<m.name \o ".tsx">>
            IN  /\ WrittenBy(c) = {path}
                /\ disk[path] = Instantiated(TemplateText("content-script-ui-mount.tsx"),
                                     "__plasmo_mount_content_script__", "~" \o JoinText(m))
                /\ CallResult(c) = path
                /\ Parent(path) # dotPlasmoDirectory
                /\ SubSeq(path, 1, Len(staticDirectory)) = staticDirectory

\* C9 witness: content scripts with and without a UI extension are mounted
\* from the intact template.
C9_Witness ==
    /\ Len(calls) = 3
    /\ Cardinality(Occurrences(TemplateText("content-script-ui-mount.tsx"),
                               "__plasmo_mount_content_script__")) = 1
    /\ calls[2].op = "createContentScriptMount"
    /\ calls[3].op = "createContentScriptMount"
    /\ calls[2].module.ext = ".tsx" /\ calls[3].module.ext = ".ts"
    /\ CallStatus(3) = "fulfilled"

\* C8: when an operation is run again with the same inputs, every output
\* file holds, after the second run, the text the first run wrote.
C8_Idempotent ==
    \A c1 \in Calls : \A c2 \in Calls :
        (/\ c1 < c2
         /\ c2 = Len(calls)
         /\ calls[c1] = calls[c2]
         /\ CallStatus(c2) = "fulfilled") =>
            \A g \in GensOfCall(c1) : disk[gens[g].out] = gens[g].content

\* C8 witness: an operation served from disk the first time has been run
\* again from the cache, and one has been run twice from disk.
C8_Witness ==
    /\ Len(calls) = 3
    /\ calls[2] = calls[3]
    /\ calls[2].op = "createPageMount"
    /\ CallStatus(3) = "fulfilled"
    /\ "index.html" \in DOMAIN scaffoldCache

\* C10: a cached generation whose template read fails is rejected, never
\* issues its write, and leaves the cache as it was; as long as the cache
\* has no entry for a name, every new cached generation for it issues the
\* read again.
C10_ReadFailure ==
    /\ [][\A g \in DOMAIN gens :
            (gens[g].kind = "cached" /\ gens[g].phase = "reading"
                /\ gens'[g].phase = "readFailed") =>
                /\ scaffoldCache' = scaffoldCache
                /\ disk' = disk
                /\ gens'[g].content = ""]_vars
    /\ [][\A g \in DOMAIN gens :
            gens[g].phase = "readFailed" =>
                /\ gens'[g] = gens[g]
                /\ TaskStatus(<<g[1], g[2]>>)' = "rejected"
                /\ CallStatus(g[1])' = "rejected"]_vars
    /\ [][\A g \in DOMAIN gens' \ DOMAIN gens :
            (gens'[g].kind = "cached" /\ gens'[g].key \notin DOMAIN scaffoldCache) =>
                gens'[g].phase = "reading"]_vars

\* C10 witness: after a failed read of a template, a later generation for
\* the same name has issued the read again.
C10_Witness ==
    \E g1 \in DOMAIN gens : \E g2 \in DOMAIN gens :
        /\ gens[g1].kind = "cached" /\ gens[g1].phase = "readFailed"
        /\ gens[g2].kind = "cached" /\ gens[g2].phase = "reading"
        /\ gens[g1].key = gens[g2].key
        /\ gens[g1].key \notin DOMAIN scaffoldCache
        /\ tasks[<<g2[1], g2[2]>>].phase = "resumed"
        /\ CallStatus(g1[1]) = "rejected"

(***************************************************************************)
(* The event loop delivers every completion: an I/O operation that is      *)
(* pending ends, with its result or with an error.                         *)
(***************************************************************************)

InitIoStep ==
    \/ copyStaticCommonDone(1)
    \/ copyStaticCommonFail(1)
    \/ \E t \in TaskIds : initUiPageTemplateResume(t)
    \/ \E t \in TaskIds : ensureDirFail(t)
    \/ \E g \in GenIds : readFileDone(g)
    \/ \E g \in GenIds : readFileFail(g)
    \/ \E g \in GenIds : writeFileDone(g)
    \/ \E g \in GenIds : writeFileFail(g)

\* One run of init() from construction to the end of its last operation.
InitNext ==
    \/ calls = <<>> /\ init
    \/ InitIoStep

\* The environments in which some read or write fails.
FaultInit == Init /\ unreadable \cup unwritable # {}

LiveSpec == FaultInit /\ [][InitNext]_vars /\ WF_vars(InitIoStep)

\* Every generation of a page of call c has settled, and the pages that did
\* not fail have their mount script and their HTML file on disk.
SiblingsComplete(c) ==
    \A p \in PageSet :
        /\ TaskStatus(<<c, p>>) # "pending"
        /\ \A g \in GensOf(<<c, p>>) : GenStatus(g) # "pending"
        /\ TaskStatus(<<c, p>>) = "fulfilled" =>
              /\ staticDirectory \o <<p \o ".tsx">> \in DOMAIN disk
              /\ dotPlasmoDirectory \o <<p \o ".html">> \in DOMAIN disk
              /\ \A g \in GensOf(<<c, p>>) : disk[gens[g].out] = gens[g].content

\* C3: init() is rejected as soon as one of its operations fails, and no
\* sibling is cancelled: every page generation still settles, and the mount
\* script and HTML file of each page that did not fail end up on disk.
C3_FailFastNoCancel ==
    /\ [](\A c \in Calls :
            (calls[c].op = "init"
                /\ \E k \in {"copy"} \cup PageSet : TaskStatus(<<c, k>>) = "rejected")
                => CallStatus(c) = "rejected")
    /\ (calls # <<>> /\ CallStatus(1) = "rejected")
          ~> (calls # <<>> /\ SiblingsComplete(1))

\* C3 witness: the options page failed on a write, init() is rejected while
\* another page is still being generated.
C3_Witness ==
    /\ calls # <<>>
    /\ CallStatus(1) = "rejected"
    /\ <<1, "options", "html">> \in DOMAIN gens
    /\ gens[<<1, "options", "html">>].phase = "writeFailed"
    /\ \A p \in PageSet \ {"options"} : TaskStatus(<<1, p>>) = "pending"
    /\ \E p \in PageSet : tasks[<<1, p>>].phase = "ensureDir"

\* C3 witness, the end: the three other pages are fulfilled with their
\* files on disk although init() was rejected.
C3_WitnessEnd ==
    /\ calls # <<>>
    /\ CallStatus(1) = "rejected"
    /\ \A p \in PageSet \ {"options"} : TaskStatus(<<1, p>>) = "fulfilled"
    /\ SiblingsComplete(1)

(***************************************************************************)
(* #generate on its own: one template text and one replace map, drawn from *)
(* bounded sets, go through the reducer.  The file system plays no part.   *)
(***************************************************************************)

MaxTextLen == 3

GenAlphabet == {"X", "Y", "a"}

GenTokens == {"X", "Y"}

GenValues == {"", "1", "2", "X", "Y", "Z"}

\* The texts over GenAlphabet of length at most n.
RECURSIVE TextsUpTo(_)
TextsUpTo(n) ==
    IF n = 0 THEN {""}
    ELSE LET shorter == TextsUpTo(n - 1)
         IN  shorter \cup {t \o c : t \in shorter, c \in GenAlphabet}

GenTexts == TextsUpTo(MaxTextLen) \cup {"X and Y"}

\* Replace maps: an object has each key once, Object.entries lists the
\* pairs in insertion order.
GenMaps ==
    {<<>>}
        \cup {<< <<k, v>> >> : k \in GenTokens, v \in GenValues}
        \cup {m \in {<< <<k1, v1>>, <<k2, v2>> >> :
                        k1 \in GenTokens, k2 \in GenTokens,
                        v1 \in GenValues, v2 \in GenValues} : m[1][1] # m[2][1]}

\* The state of a Scaffolder nothing was asked of, on an empty disk.
Idle ==
    /\ disk = EmptyMap
    /\ dirs = {}
    /\ scaffoldCache = EmptyMap
    /\ calls = <<>>
    /\ tasks = EmptyMap
    /\ gens = EmptyMap
    /\ unreadable = {}
    /\ unwritable = {}

InitGenerate ==
    /\ Idle
    /\ pIn \in [templateContent : GenTexts, replaceMap : GenMaps]
    /\ pOut = <<>>

\* #generate (scaffolder.ts:189-200) up to the call of writeFile: pOut is
\* the text handed to it.
generate ==
    /\ pOut = <<>>
    /\ pOut' = <<FinalScaffold(pIn.templateContent, pIn.replaceMap)>>
    /\ UNCHANGED <<disk, dirs, scaffoldCache, calls, tasks, gens,
                   unreadable, unwritable, pIn>>

SpecGenerate == InitGenerate /\ [][generate]_vars

\* Every character of text equal to the one-character token gives way to
\* value, the others stay.
RECURSIVE SubstituteChars(_, _, _, _)
SubstituteChars(text, token, value, i) ==
    IF i > Len(text) THEN ""
    ELSE (IF CharAt(text, i) = token THEN value ELSE CharAt(text, i))
            \o SubstituteChars(text, token, value, i + 1)

\* The pairs applied one after another, each to the text the pairs before
\* it produced.
OneAfterAnother(text, replaceMap) ==
    IF Len(replaceMap) = 0 THEN text
    ELSE LET first == SubstituteChars(text, replaceMap[1][1], replaceMap[1][2], 1)
         IN  IF Len(replaceMap) = 1 THEN first
             ELSE SubstituteChars(first, replaceMap[2][1], replaceMap[2][2], 1)

\* C4: the generated text is the result of applying the pairs one after
\* another in map order, each pair replacing every occurrence of its token
\* in the text the previous pairs produced; "XY" under {X: "Y", Y: "Z"}
\* gives "ZZ" and "X and Y" under {X: "1", Y: "2"} gives "1 and 2".
C4_SequentialSubstitution ==
    pOut # <<>> =>
        /\ pOut[1] = OneAfterAnother(pIn.templateContent, pIn.replaceMap)
        /\ (pIn.templateContent = "XY"
                /\ pIn.replaceMap = << <<"X", "Y">>, <<"Y", "Z">> >>)
              => pOut[1] = "ZZ"
        /\ (pIn.templateContent = "X and Y"
                /\ pIn.replaceMap = << <<"X", "1">>, <<"Y", "2">> >>)
              => pOut[1] = "1 and 2"

\* C4 witness: the second pair has replaced the "Y" the first pair wrote.
C4_Witness ==
    /\ pOut = <<"ZZ">>
    /\ pIn.templateContent = "XY"
    /\ pIn.replaceMap = << <<"X", "Y">>, <<"Y", "Z">> >>

(***************************************************************************)
(* generateHtml on a user HTML file, on its own: the source text, the      *)
(* project name and the script mount path are drawn from bounded sets.     *)
(***************************************************************************)

MaxChunks == 3

Marker == "</body>"

RootElement == "<div id=\"root\"></div>"

ScriptTag(scriptMountPath) ==
    "<script src=\"" \o scriptMountPath \o "\" type=\"module\"></script>"

HtmlChunks ==
    {"<p>hi</p>", Marker, "__plasmo_static_index_title__",
     "__plasmo_static_script__", RootElement}

\* The texts made of at most n chunks.
RECURSIVE ChunksUpTo(_)
ChunksUpTo(n) ==
    IF n = 0 THEN {""}
    ELSE LET shorter == ChunksUpTo(n - 1)
         IN  shorter \cup {t \o c : t \in shorter, c \in HtmlChunks}

HtmlSources == ChunksUpTo(MaxChunks)

ProjectNames == {"demo", "R&D </body>", "$& Pro"}

\* The script mount paths generateHtml is called with: createPageHtml's,
\* and the two of createPageMount.
ScriptMountPaths == {"./static/popup.tsx", "./a.tsx", "~sandbox.ts"}

SomeHtmlFile == <<"proj", "popup.html">>

InitHtml ==
    /\ Idle
    /\ pIn \in [source : HtmlSources, projectName : ProjectNames,
                scriptMountPath : ScriptMountPaths]
    /\ pOut = <<>>

\* A generator that adds the root element and the script tag at the end of
\* a document in which it found no marker.
generateHtmlAppendingMount ==
    /\ pOut = <<>>
    /\ LET out == FinalScaffold(pIn.source,
                      HtmlReplaceMap(pIn.projectName, pIn.scriptMountPath, SomeHtmlFile))
       IN  pOut' = <<IF Occurrences(out, "</body>") = {}
                     THEN out \o "<div id=\"root\"></div>"
                     ELSE out>>
    /\ UNCHANGED <<disk, dirs, scaffoldCache, calls, tasks, gens,
                   unreadable, unwritable, pIn>>

\* generateHtml with an htmlFile (scaffolder.ts:105-106), through
\* #copyGenerate and #generate, up to the call of writeFile.
generateHtmlFromFile ==
    /\ pOut = <<>>
    /\ pOut' = <<FinalScaffold(pIn.source,
                    HtmlReplaceMap(pIn.projectName, pIn.scriptMountPath, SomeHtmlFile))>>
    /\ UNCHANGED <<disk, dirs, scaffoldCache, calls, tasks, gens,
                   unreadable, unwritable, pIn>>

SpecHtml == InitHtml /\ [][generateHtmlFromFile]_vars

CountOf(text, key) == Cardinality(Occurrences(text, key))

\* text with the root element and the script tag put in front of its one
\* marker.
Injected(text, scriptMountPath) ==
    LET m == Min(Occurrences(text, Marker))
    IN  SubSeq(text, 1, m - 1) \o RootElement \o ScriptTag(scriptMountPath)
            \o Substring(text, m)

\* The source after the title and script substitutions.
Substituted ==
    ReplaceAll(ReplaceAll(pIn.source, "__plasmo_static_index_title__", pIn.projectName),
               "__plasmo_static_script__", pIn.scriptMountPath)

\* C6 as stated: a source with exactly one marker gives a document with
\* exactly one root element and one script tag, put immediately before the
\* marker, every other byte of the source unchanged and in order.
C6_SourceBytesKept ==
    (pOut # <<>> /\ CountOf(pIn.source, Marker) = 1) =>
        /\ pOut[1] = Injected(pIn.source, pIn.scriptMountPath)
        /\ CountOf(pOut[1], RootElement) = 1
        /\ CountOf(pOut[1], ScriptTag(pIn.scriptMountPath)) = 1

\* C6 amended: when the source, after the title and script substitutions,
\* contains exactly one marker, the written document is that substituted
\* text with one root element and one script tag pointing at
\* scriptMountPath put immediately before the marker: one root element and
\* one script tag more than the substituted text had, still one marker, and
\* every other byte of the substituted text unchanged and in order.
C6_HtmlInjection ==
    (pOut # <<>> /\ CountOf(Substituted, Marker) = 1) =>
        /\ pOut[1] = Injected(Substituted, pIn.scriptMountPath)
        /\ CountOf(pOut[1], RootElement) = CountOf(Substituted, RootElement) + 1
        /\ CountOf(pOut[1], ScriptTag(pIn.scriptMountPath))
              = CountOf(Substituted, ScriptTag(pIn.scriptMountPath)) + 1
        /\ CountOf(pOut[1], Marker) = 1

\* C6 witness: a source with one marker and the title token has been
\* generated; the title was substituted and the injection made.
C6_Witness ==
    /\ pOut # <<>>
    /\ pIn.source = "__plasmo_static_index_title__" \o "<p>hi</p>" \o Marker
    /\ pIn.projectName = "demo"
    /\ pOut[1] = "demo<p>hi</p>" \o RootElement \o ScriptTag(pIn.scriptMountPath) \o Marker

(***************************************************************************)
(* The cache and the order of the steps of one operation, under Spec.      *)
(***************************************************************************)

\* The cached generations that are reading the template fileName.
Reading(fileName) ==
    {g \in DOMAIN gens : gens[g].kind = "cached" /\ gens[g].key = fileName
                            /\ gens[g].phase = "reading"}

\* C11: in every state each cache entry holds the text of its template
\* file, and no step removes an entry or changes its text: a redundant
\* concurrent load stores the text that is there already.
C11_CacheIntegrity ==
    /\ [](\A k \in DOMAIN scaffoldCache : scaffoldCache[k] = TemplateText(k))
    /\ [][\A k \in DOMAIN scaffoldCache :
            /\ k \in DOMAIN scaffoldCache'
            /\ scaffoldCache'[k] = scaffoldCache[k]]_vars

\* C11 witness: the mount-script template is in the cache while two other
\* loads of it, started before it was stored, are still in flight.
C11_Witness ==
    /\ "index.tsx" \in DOMAIN scaffoldCache
    /\ scaffoldCache["index.tsx"] = IndexMountText
    /\ Cardinality(Reading("index.tsx")) >= 2

\* The cache holds a text for fileName that a generation can use.
HoldsText(fileName) ==
    fileName \in DOMAIN scaffoldCache /\ scaffoldCache[fileName] # ""

\* C12 as stated: during the first init() no template is being read by two
\* generations, each name being read at most once.
C12_SingleLoad ==
    \A g1 \in DOMAIN gens : \A g2 \in DOMAIN gens :
        (/\ g1[1] = 1 /\ g2[1] = 1
         /\ gens[g1].kind = "cached" /\ gens[g2].kind = "cached"
         /\ gens[g1].key = gens[g2].key
         /\ gens[g1].phase = "reading" /\ gens[g2].phase = "reading")
            => g1 = g2

\* C12 amended: during init() a cached generation issues a read exactly
\* when the cache holds no text for the name at the time the generation
\* starts, so a name is read once by every page generation that starts
\* before its first load has completed (up to four times), and by none that
\* starts afterwards.
C12_LoadPerEarlyRequest ==
    [][\A g \in DOMAIN gens' \ DOMAIN gens :
          (calls[g[1]].op = "init" /\ gens'[g].kind = "cached") =>
              /\ HoldsText(gens'[g].key) => gens'[g].phase = "writing"
              /\ ~ HoldsText(gens'[g].key) => gens'[g].phase = "reading"]_vars

\* C12 witness: during the first init() one page has loaded the
\* mount-script template and written its script, two others, started
\* before that load completed, are reading it again, and the fourth has yet
\* to start: it will be served from the cache.
C12_Witness ==
    /\ Len(calls) = 1
    /\ Cardinality(Reading("index.tsx")) = 2
    /\ \E p \in PageSet :
          /\ <<1, p, "script">> \in DOMAIN gens
          /\ gens[<<1, p, "script">>].phase = "done"
    /\ \E p \in PageSet : tasks[<<1, p>>].phase = "ensureDir"
    /\ HoldsText("index.tsx")

\* C13: a generation of an operation, its template read or its write,
\* exists only once the operation's ensureDir has completed: the operation
\* is past its await and the directory, with the directory of the output
\* file, exists.
C13_DirectoryFirst ==
    \A g \in DOMAIN gens :
        LET t == <<g[1], g[2]>>
        IN  /\ tasks[t].phase = "resumed"
            /\ EnsuredDir(t) \in dirs
            /\ Parent(gens[g].out) \in dirs

\* C13 witness: one page is reading and writing while the ensureDir of
\* another page of the same init() is still pending.
C13_Witness ==
    /\ Len(calls) = 1
    /\ \E p \in PageSet : tasks[<<1, p>>].phase = "ensureDir"
    /\ \E g \in DOMAIN gens : gens[g].phase = "reading"
    /\ \E g \in DOMAIN gens : gens[g].phase = "writing"

(***************************************************************************)
(* Values and markers in generateHtml, under SpecHtml.                     *)
(***************************************************************************)

\* text with every occurrence of key, found from left to right without
\* overlap, replaced by the characters of value.
RECURSIVE LiteralFrom(_, _, _, _, _)
LiteralFrom(text, key, value, occurrences, from) ==
    CHOOSE result \in
        {IF p = 0 THEN Substring(text, from)
         ELSE SubSeq(text, from, p - 1) \o value
                 \o LiteralFrom(text, key, value, occurrences, p + Len(key))
         : p \in {IndexOf(occurrences, from)}} : TRUE

Literally(text, key, value) ==
    CHOOSE result \in
        {LiteralFrom(str, key, value, Occurrences(str, key), 1) : str \in {text}} : TRUE

\* C14: each occurrence of a token is replaced by exactly the characters of
\* its value, here the project name and the script mount path in a user
\* HTML file, no character of the value being interpreted specially.
C14_LiteralReplacement ==
    pOut # <<>> =>
        pOut[1] = Literally(
                      Literally(
                          Literally(pIn.source, "__plasmo_static_index_title__",
                                    pIn.projectName),
                          "__plasmo_static_script__", pIn.scriptMountPath),
                      Marker,
                      RootElement \o ScriptTag(pIn.scriptMountPath) \o Marker)

\* C15 as stated: a source without a marker is written with the title and
\* script substitutions only, no root element and no script tag added.
C15_NoMarkerInSource ==
    (pOut # <<>> /\ CountOf(pIn.source, Marker) = 0) =>
        /\ pOut[1] = Substituted
        /\ CountOf(pOut[1], RootElement) = CountOf(pIn.source, RootElement)

\* C15 amended: when the text of the user HTML file after the title and
\* script substitutions contains no marker, the generation succeeds and
\* writes that text as it is, without a root element or a script tag added.
C15_NoMarkerAfterSubstitution ==
    (pOut # <<>> /\ CountOf(Substituted, Marker) = 0) =>
        /\ pOut[1] = Substituted
        /\ CountOf(pOut[1], RootElement) = CountOf(Substituted, RootElement)
        /\ CountOf(pOut[1], ScriptTag(pIn.scriptMountPath))
              = CountOf(Substituted, ScriptTag(pIn.scriptMountPath))

\* C15 witness: a source with the title token and no marker has been
\* written with the title substituted and nothing else.
C15_Witness ==
    /\ pOut # <<>>
    /\ pIn.source = "<p>hi</p>" \o "__plasmo_static_index_title__"
    /\ pIn.projectName = "demo"
    /\ pOut[1] = "<p>hi</p>demo"

\* The injection stands immediately before the marker at index m of text.
InjectedBefore(text, m, scriptMountPath) ==
    LET injection == RootElement \o ScriptTag(scriptMountPath)
    IN  /\ m > Len(injection)
        /\ SubSeq(text, m - Len(injection), m - 1) = injection

\* The root elements the generation added to the substituted text.
RootsInjected == CountOf(pOut[1], RootElement) - CountOf(Substituted, RootElement)

\* C19 as stated: as many root elements are injected as the substituted
\* text has markers, and a generated document has at most one root element
\* and one injected script tag.
C19_AtMostOneInjection ==
    pOut # <<>> =>
        /\ RootsInjected = CountOf(Substituted, Marker)
        /\ CountOf(pOut[1], RootElement) <= 1
        /\ CountOf(pOut[1], ScriptTag(pIn.scriptMountPath)) <= 1

\* C19 amended: as many root elements, each with its script tag, are
\* injected as the text after the title and script substitutions has
\* markers, one immediately before each marker: none, one or several.
C19_InjectionPerMarker ==
    pOut # <<>> =>
        /\ RootsInjected = CountOf(Substituted, Marker)
        /\ CountOf(pOut[1], Marker) = CountOf(Substituted, Marker)
        /\ \A m \in Occurrences(pOut[1], Marker) :
              InjectedBefore(pOut[1], m, pIn.scriptMountPath)

\* C19 witness: a source with two markers has been given two root elements.
C19_Witness ==
    /\ pOut # <<>>
    /\ pIn.source = Marker \o "<p>hi</p>" \o Marker
    /\ CountOf(pOut[1], RootElement) = 2

(***************************************************************************)
(* The files of an operation, under Spec.                                  *)
(***************************************************************************)

ResponsibleFor(c) ==
    LET m == calls[c].module
    IN  CASE calls[c].op = "init" ->
                {staticDirectory \o <<p \o ".tsx">> : p \in PageSet}
                    \cup {dotPlasmoDirectory \o <<p \o ".html">> : p \in PageSet}
                    \cup {staticCommonDirectory \o <<CommonAsset>>}
          [] calls[c].op = "createPageMount" ->
                {dotPlasmoDirectory \o m.dir \o <<m.name \o ".html">>}
                    \cup (IF m.ext = ".tsx"
                          THEN {dotPlasmoDirectory \o m.dir \o <<m.name \o ".tsx">>}
                          ELSE {})
          [] OTHER -> {staticDirectory \o m.dir \o <<m.name \o ".tsx">>}

\* C17: when the latest call is fulfilled, none of its operations is
\* pending, every generation it started has completed its write, the file
\* holding the text generated, and every file it is to write exists.
C17_CompleteOnResolve ==
    (calls # <<>> /\ CallStatus(Len(calls)) = "fulfilled") =>
        LET c == Len(calls)
        IN  /\ \A t \in DOMAIN tasks : t[1] = c => tasks[t].phase \in {"done", "resumed"}
            /\ \A g \in GensOfCall(c) :
                  /\ gens[g].phase = "done"
                  /\ disk[gens[g].out] = gens[g].content
            /\ ResponsibleFor(c) \subseteq DOMAIN disk
            /\ ResponsibleFor(c) \ {staticCommonDirectory \o <<CommonAsset>>}
                  = WrittenBy(c)

\* C17 witness: init(), a createPageMount and a createContentScriptMount
\* have resolved one after another.
C17_Witness ==
    /\ Len(calls) = 3
    /\ calls[2].op = "createPageMount"
    /\ calls[3].op = "createContentScriptMount"
    /\ CallStatus(3) = "fulfilled"

(***************************************************************************)
(* Mount operations started without awaiting one another: the caller       *)
(* issues createPageMount and createContentScriptMount calls for the       *)
(* modules it discovered and awaits them together.                         *)
(***************************************************************************)

MaxConcurrent == 2

\* Discovered modules: two of them share directory and name and differ in
\* their extension.
ConcurrentModules ==
    Modules \cup {[dir |-> <<"tabs">>, name |-> "a", ext |-> ".ts"]}

\* createPageMount(module) up to its await of ensureDir (lines 127-133),
\* whatever the state of the calls made before.
createPageMountUnawaited(module) ==
    /\ Len(calls) < MaxConcurrent
    /\ calls' = Append(calls, [op |-> "createPageMount", module |-> module])
    /\ tasks' = Put(tasks, <<Len(calls) + 1, "mount">>,
                    [kind |-> "pageMount", phase |-> "ensureDir", module |-> module,
                     indexFile |-> NoFile, htmlFile |-> NoFile])
    /\ UNCHANGED <<disk, dirs, scaffoldCache, gens>>
    /\ UNCHANGEDEnv

\* createContentScriptMount(module) up to its await of ensureDir (lines
\* 161-168), whatever the state of the calls made before.
createContentScriptMountUnawaited(module) ==
    /\ Len(calls) < MaxConcurrent
    /\ calls' = Append(calls, [op |-> "createContentScriptMount", module |-> module])
    /\ tasks' = Put(tasks, <<Len(calls) + 1, "mount">>,
                    [kind |-> "contentScript", phase |-> "ensureDir", module |-> module,
                     indexFile |-> NoFile, htmlFile |-> NoFile])
    /\ UNCHANGED <<disk, dirs, scaffoldCache, gens>>
    /\ UNCHANGEDEnv

\* A project without user pages, the templates intact, no I/O fault.
InitConcurrent ==
    /\ Init
    /\ unreadable = {} /\ unwritable = {}
    /\ DOMAIN disk = DOMAIN TemplateFiles({})
    /\ \A f \in DOMAIN disk : disk[f] # ""

ConcurrentTasks == {<<c, "mount">> : c \in 1..MaxConcurrent}

ConcurrentGens == {<<t[1], t[2], s>> : t \in ConcurrentTasks, s \in {"script", "html"}}

NextConcurrent ==
    \/ \E m \in ConcurrentModules : createPageMountUnawaited(m)
    \/ \E m \in ConcurrentModules : createContentScriptMountUnawaited(m)
    \/ \E t \in ConcurrentTasks : createPageMountResume(t)
    \/ \E t \in ConcurrentTasks : createContentScriptMountResume(t)
    \/ \E g \in ConcurrentGens : readFileDone(g)
    \/ \E g \in ConcurrentGens : writeFileDone(g)

SpecConcurrent == InitConcurrent /\ [][NextConcurrent]_vars

\* The output paths of the generations call c has started.
OutputsOf(c) == {gens[g].out : g \in GensOfCall(c)}

\* C18: two mount operations running at the same time on distinct inputs
\* write to disjoint sets of paths.
C18_DisjointOutputs ==
    \A c1 \in Calls : \A c2 \in Calls :
        (c1 < c2 /\ calls[c1] # calls[c2]) => OutputsOf(c1) \cap OutputsOf(c2) = {}

====
